---- MODULE Spec2Model ----
(***************************************************************************)
(* Model of lithuanian-phonology (src/src/lib.rs).                         *)
(*                                                                         *)
(* A Rust &str / String is modelled as what it is: a sequence of UTF-8     *)
(* bytes.  A char is a Unicode scalar value (a natural number).  chars()   *)
(* decodes, String::push encodes, push_str appends bytes, == on strings    *)
(* compares bytes.  Str(<<...>>) writes a string literal by its code       *)
(* points.                                                                 *)
(*                                                                         *)
(* Three specifications:                                                   *)
(*   Spec      one caller thread (as in src/src/main.rs) driving           *)
(*             get_accentuation / get_case_name step by step, with the     *)
(*             external analyzer's answer chosen nondeterministically;     *)
(*   SpecConc  NumThreads callers interleaving the same steps;             *)
(*   SpecPure  the pure functions applied to inputs drawn by Init.         *)
(***************************************************************************)
EXTENDS Integers, Sequences, FiniteSets, TLC

VARIABLES
    statics,  \* the four process-wide static phf maps
    gil,      \* holder of Python's global interpreter lock, 0 when free
    pc,       \* per thread: position inside the current call
    fn,       \* per thread: the function being called
    word,     \* per thread: get_accentuation's `word`
    case,     \* per thread: `case` (argument of either function)
    version,  \* per thread: the extracted Vec of stress options
    pos,      \* per thread: position of the iterator of `for i in version`
    result,   \* per thread: what the call produced
    call      \* SpecPure: the pure function application under test

vars == <<statics, gil, pc, fn, word, case, version, pos, result, call>>

-----------------------------------------------------------------------------
(* Bounds *)

NumThreads == 2
MaxOptions == 2
MaxConcOptions == 2
MaxLen == 3

-----------------------------------------------------------------------------
(* Strings: UTF-8 *)

encode_utf8(c) ==
    IF c < 128 THEN <<c>>
    ELSE IF c < 2048 THEN <<192 + (c \div 64), 128 + (c % 64)>>
    ELSE <<224 + (c \div 4096), 128 + ((c \div 64) % 64), 128 + (c % 64)>>

RECURSIVE Str(_)
Str(cps) ==
    IF cps = <<>> THEN <<>> ELSE encode_utf8(Head(cps)) \o Str(Tail(cps))

RECURSIVE chars(_)
chars(s) ==
    IF s = <<>> THEN <<>>
    ELSE LET b == s[1] IN
         IF b < 128 THEN <<b>> \o chars(SubSeq(s, 2, Len(s)))
         ELSE IF b < 224
              THEN <<(b - 192) * 64 + (s[2] - 128)>> \o chars(SubSeq(s, 3, Len(s)))
              ELSE <<(b - 224) * 4096 + (s[2] - 128) * 64 + (s[3] - 128)>>
                   \o chars(SubSeq(s, 4, Len(s)))

-----------------------------------------------------------------------------
(* Outcomes of a call *)

NoResult == [kind |-> "none", val |-> <<>>, msg |-> ""]
Returned(s) == [kind |-> "returned", val |-> s, msg |-> ""]
Ok(s) == [kind |-> "Ok", val |-> s, msg |-> ""]
Err(m) == [kind |-> "Err", val |-> <<>>, msg |-> m]
Panicked(m) == [kind |-> "panic", val |-> <<>>, msg |-> m]

-----------------------------------------------------------------------------
(* Static tables, lib.rs 63-101.  Keys are chars, values are strings.       *)

\* a-ogonek 261, e 101, e-dot 279, e-ogonek 281, i-ogonek 303, l 108, m 109,
\* o 111, r 114, u-ogonek 371, u-macron 363, y 121;  771 = combining tilde,
\* 7869 = e-tilde, 245 = o-tilde, 7929 = y-tilde
STRESS_TYPE_2 ==
    (261 :> Str(<<261, 771>>)) @@ (101 :> Str(<<7869>>)) @@
    (279 :> Str(<<279, 771>>)) @@ (281 :> Str(<<281, 771>>)) @@
    (303 :> Str(<<303, 771>>)) @@ (108 :> Str(<<108, 771>>)) @@
    (109 :> Str(<<109, 771>>)) @@ (111 :> Str(<<245>>)) @@
    (114 :> Str(<<114, 771>>)) @@ (371 :> Str(<<371, 771>>)) @@
    (363 :> Str(<<363, 771>>)) @@ (121 :> Str(<<7929>>))

\* a 97, i 105, u 117;  224 = a-grave, 236 = i-grave, 768 = combining grave
STRESS_TYPE_0 ==
    (97 :> Str(<<224>>)) @@ (105 :> Str(<<236>>)) @@ (117 :> Str(<<117, 768>>))

\* 769 = combining acute; 'e' maps to e-ogonek + acute
STRESS_TYPE_1 ==
    (363 :> Str(<<363, 769>>)) @@ (101 :> Str(<<281, 769>>)) @@
    (279 :> Str(<<279, 769>>)) @@ (303 :> Str(<<303, 769>>)) @@
    (261 :> Str(<<261, 769>>)) @@ (371 :> Str(<<371, 769>>))

nominative == Str(<<110, 111, 109, 105, 110, 97, 116, 105, 118, 101>>)
genitive == Str(<<103, 101, 110, 105, 116, 105, 118, 101>>)
dative == Str(<<100, 97, 116, 105, 118, 101>>)
accusative == Str(<<97, 99, 99, 117, 115, 97, 116, 105, 118, 101>>)
instrumental == Str(<<105, 110, 115, 116, 114, 117, 109, 101, 110, 116, 97, 108>>)
locative == Str(<<108, 111, 99, 97, 116, 105, 118, 101>>)
vocative == Str(<<118, 111, 99, 97, 116, 105, 118, 101>>)

Vardininkas == Str(<<86, 97, 114, 100, 105, 110, 105, 110, 107, 97, 115>>)
Kilmininkas == Str(<<75, 105, 108, 109, 105, 110, 105, 110, 107, 97, 115>>)
Naudininkas == Str(<<78, 97, 117, 100, 105, 110, 105, 110, 107, 97, 115>>)
Galininkas == Str(<<71, 97, 108, 105, 110, 105, 110, 107, 97, 115>>)
Inagininkas == Str(<<302, 110, 97, 103, 105, 110, 105, 110, 107, 97, 115>>)
Vietininkas == Str(<<86, 105, 101, 116, 105, 110, 105, 110, 107, 97, 115>>)
Sauksmininkas == Str(<<352, 97, 117, 107, 115, 109, 105, 110, 105, 110, 107, 97, 115>>)
UNKNOWN == Str(<<85, 78, 75, 78, 79, 87, 78>>)

CASE_NAMES ==
    (nominative :> Vardininkas) @@ (genitive :> Kilmininkas) @@
    (dative :> Naudininkas) @@ (accusative :> Galininkas) @@
    (instrumental :> Inagininkas) @@ (locative :> Vietininkas) @@
    (vocative :> Sauksmininkas)

Statics ==
    [STRESS_TYPE_0 |-> STRESS_TYPE_0, STRESS_TYPE_1 |-> STRESS_TYPE_1,
     STRESS_TYPE_2 |-> STRESS_TYPE_2, CASE_NAMES |-> CASE_NAMES]

-----------------------------------------------------------------------------
(* make_stressed, lib.rs 121-129 *)

\* the tables of stress types 1 and 2 taken for one another
make_stressed_swapped(c, stress_type) ==
    IF stress_type \notin {0, 1, 2}
    THEN Panicked("unreachable")
    ELSE LET map == IF stress_type = 0 THEN statics.STRESS_TYPE_0
                    ELSE IF stress_type = 1 THEN statics.STRESS_TYPE_2
                    ELSE statics.STRESS_TYPE_1
         IN  IF c \in DOMAIN map
             THEN Returned(map[c])
             ELSE Panicked("unwrap on None")

make_stressed(c, stress_type) ==
    IF stress_type \notin {0, 1, 2}
    THEN Panicked("unreachable")
    ELSE LET map == IF stress_type = 0 THEN statics.STRESS_TYPE_0
                    ELSE IF stress_type = 1 THEN statics.STRESS_TYPE_1
                    ELSE statics.STRESS_TYPE_2
         IN  IF c \in DOMAIN map
             THEN Returned(map[c])
             ELSE Panicked("unwrap on None")


\* the loop written with char_indices(): positions counted in bytes
RECURSIVE for_char_indices(_, _, _, _, _, _)
for_char_indices(cs, k, off, stressed, stress_type, stressed_letter_index) ==
    IF k > Len(cs)
    THEN Returned(stressed)
    ELSE LET c == cs[k] IN
         IF off = stressed_letter_index
         THEN LET m == make_stressed(c, stress_type) IN
              IF m.kind = "panic"
              THEN m
              ELSE for_char_indices(cs, k + 1, off + Len(encode_utf8(c)),
                                    stressed \o m.val,
                                    stress_type, stressed_letter_index)
         ELSE for_char_indices(cs, k + 1, off + Len(encode_utf8(c)),
                               stressed \o encode_utf8(c),
                               stress_type, stressed_letter_index)

create_stresed_word_char_indices(w, stress_type, stressed_letter_index) ==
    for_char_indices(chars(w), 1, 0, <<>>, stress_type, stressed_letter_index)

(* create_stresed_word, lib.rs 51-61.  cs is word.chars(), i the counter   *)
(* of enumerate(), stressed the String built so far.                       *)

RECURSIVE for_enumerate(_, _, _, _, _)
for_enumerate(cs, i, stressed, stress_type, stressed_letter_index) ==
    IF i >= Len(cs)
    THEN Returned(stressed)
    ELSE LET c == cs[i + 1] IN
         IF i = stressed_letter_index
         THEN LET m == make_stressed(c, stress_type) IN
              IF m.kind = "panic"
              THEN m
              ELSE for_enumerate(cs, i + 1, stressed \o m.val,
                                 stress_type, stressed_letter_index)
         ELSE for_enumerate(cs, i + 1, stressed \o encode_utf8(c),
                            stress_type, stressed_letter_index)

create_stresed_word(w, stress_type, stressed_letter_index) ==
    for_enumerate(chars(w), 0, <<>>, stress_type, stressed_letter_index)

-----------------------------------------------------------------------------
(* get_case_name, lib.rs 114-119 *)

\* char::to_lowercase on the code points the model's inputs are made of:
\* ASCII capitals, A-ogonek 260, I-ogonek 302, S-caron 352, I-with-dot 304
\* (lower-cases to i + combining dot 775), Kelvin sign 8490 (to k).
lower_char(c) ==
    IF c >= 65 /\ c <= 90 THEN <<c + 32>>
    ELSE IF c \in {260, 302, 352} THEN <<c + 1>>
    ELSE IF c = 304 THEN <<105, 775>>
    ELSE IF c = 8490 THEN <<107>>
    ELSE <<c>>

RECURSIVE lower_chars(_)
lower_chars(cs) ==
    IF cs = <<>> THEN <<>> ELSE lower_char(Head(cs)) \o lower_chars(Tail(cs))

\* the lookup done on the input as given
to_lowercase_forgotten(s) == s

to_lowercase(s) == Str(lower_chars(chars(s)))

get_case_name(name) ==
    LET key == to_lowercase(name) IN
    IF key \in DOMAIN statics.CASE_NAMES
    THEN statics.CASE_NAMES[key]
    ELSE UNKNOWN

-----------------------------------------------------------------------------
(* Inputs *)

Threads == 1 .. NumThreads
MainThread == {1}

gera == Str(<<103, 101, 114, 97>>)
zodi == Str(<<382, 111, 100, 303>>)         \* z-caron o d i-ogonek
vardininkas == Str(<<118, 97, 114, 100, 105, 110, 105, 110, 107, 97, 115>>)
Nominative == Str(<<78, 111, 109, 105, 110, 97, 116, 105, 118, 101>>)
ablative == Str(<<97, 98, 108, 97, 116, 105, 118, 101>>)

BoundedSeq(S, n) == UNION {[1 .. k -> S] : k \in 0 .. n}

\* what the analyzer labels its options with, and what callers ask for
Labels == {Vardininkas, UNKNOWN}
Words == {gera, zodi}
Cases == {Vardininkas, UNKNOWN, vardininkas}
EnglishNames == {Nominative, ablative, vardininkas}

\* stress_type is extracted as u8 (256 does not fit), the index as usize
StressTypes == {0, 1, 2, 255, 256}
Indexes == {0, 1, 3, 4}
Records ==
    [grammatical_case : Labels, stress_type : StressTypes,
     stressed_letter_index : Indexes]
Versions == BoundedSeq(Records, MaxOptions)

ConcWords == {gera}
ConcCases == {Vardininkas, UNKNOWN}
ConcRecords ==
    [grammatical_case : Labels, stress_type : {0, 2},
     stressed_letter_index : {1, 3}]
ConcVersions == BoundedSeq(ConcRecords, MaxConcOptions)

-----------------------------------------------------------------------------
(* get_accentuation, lib.rs 17-49, one thread's steps *)

locals == <<fn, word, case, version, pos, result>>

\* the call: arguments bound, about to enter Python::with_gil
call_get_accentuation(t, ws, cs) ==
    /\ pc[t] = "idle"
    /\ \E w \in ws, c \in cs :
          /\ word' = [word EXCEPT ![t] = w]
          /\ case' = [case EXCEPT ![t] = c]
    /\ fn' = [fn EXCEPT ![t] = "get_accentuation"]
    /\ pc' = [pc EXCEPT ![t] = "with_gil"]
    /\ UNCHANGED <<statics, gil, version, pos, result, call>>

\* Python::with_gil (line 18) blocks until the lock is free
with_gil(t) ==
    /\ pc[t] = "with_gil"
    /\ gil = 0
    /\ gil' = t
    /\ pc' = [pc EXCEPT ![t] = "process"]
    /\ UNCHANGED <<statics, locals, call>>

\* While the analyzer's Python code runs (lines 19-30) the interpreter may
\* hand the lock to another thread and take it back later.
py_yield(t) ==
    /\ pc[t] = "process"
    /\ gil = t
    /\ gil' = 0
    /\ pc' = [pc EXCEPT ![t] = "py_blocked"]
    /\ UNCHANGED <<statics, locals, call>>

py_resume(t) ==
    /\ pc[t] = "py_blocked"
    /\ gil = 0
    /\ gil' = t
    /\ pc' = [pc EXCEPT ![t] = "process"]
    /\ UNCHANGED <<statics, locals, call>>

\* lines 19-31: the analyzer answers and the answer is extracted into a Vec,
\* or any of the `?` returns the Python error
process(t, vs) ==
    /\ pc[t] = "process"
    /\ gil = t
    /\ \/ \E v \in vs :
             /\ version' = [version EXCEPT ![t] = [is_some |-> TRUE, vec |-> v]]
             /\ pc' = [pc EXCEPT ![t] = "for"]
             /\ UNCHANGED result
       \/ /\ result' = [result EXCEPT ![t] = Err("PyErr")]
          /\ pc' = [pc EXCEPT ![t] = "done"]
          /\ UNCHANGED version
    /\ UNCHANGED <<statics, gil, fn, word, case, pos, call>>

\* lines 36-43: the record matched
matched(w, i) ==
    IF i.stress_type > 255
    THEN Err("PyErr")
    ELSE LET s == create_stresed_word(w, i.stress_type, i.stressed_letter_index)
         IN  IF s.kind = "panic" THEN s ELSE Ok(s.val)

\* the loop keeping the last matching record instead of the first
for_version_last(t) ==
    /\ pc[t] = "for"
    /\ gil = t
    /\ IF pos[t] >= Len(version[t].vec)
       THEN /\ result' = [result EXCEPT ![t] = Err("Unable to find correct case")]
            /\ pc' = [pc EXCEPT ![t] = "done"]
            /\ UNCHANGED pos
       ELSE LET i == version[t].vec[pos[t] + 1] IN
            IF /\ i.grammatical_case = case[t]
               /\ \A k \in pos[t] + 2 .. Len(version[t].vec) :
                      version[t].vec[k].grammatical_case # case[t]
            THEN /\ result' = [result EXCEPT ![t] = matched(word[t], i)]
                 /\ pc' = [pc EXCEPT ![t] = "done"]
                 /\ UNCHANGED pos
            ELSE /\ pos' = [pos EXCEPT ![t] = pos[t] + 1]
                 /\ UNCHANGED <<result, pc>>
    /\ UNCHANGED <<statics, gil, fn, word, case, version, call>>

\* the loop falling through to the unaccented word when nothing matched
for_version_fallthrough(t) ==
    /\ pc[t] = "for"
    /\ gil = t
    /\ IF pos[t] >= Len(version[t].vec)
       THEN /\ result' = [result EXCEPT ![t] = Ok(word[t])]
            /\ pc' = [pc EXCEPT ![t] = "done"]
            /\ UNCHANGED pos
       ELSE LET i == version[t].vec[pos[t] + 1] IN
            IF i.grammatical_case = case[t]
            THEN /\ result' = [result EXCEPT ![t] = matched(word[t], i)]
                 /\ pc' = [pc EXCEPT ![t] = "done"]
                 /\ UNCHANGED pos
            ELSE /\ pos' = [pos EXCEPT ![t] = pos[t] + 1]
                 /\ UNCHANGED <<result, pc>>
    /\ UNCHANGED <<statics, gil, fn, word, case, version, call>>

\* the loop refusing the sentinel "UNKNOWN" as a case to look for
for_version_sentinel(t) ==
    /\ pc[t] = "for"
    /\ gil = t
    /\ IF pos[t] >= Len(version[t].vec)
       THEN /\ result' = [result EXCEPT ![t] = Err("Unable to find correct case")]
            /\ pc' = [pc EXCEPT ![t] = "done"]
            /\ UNCHANGED pos
       ELSE LET i == version[t].vec[pos[t] + 1] IN
            IF i.grammatical_case = case[t] /\ case[t] # UNKNOWN
            THEN /\ result' = [result EXCEPT ![t] = matched(word[t], i)]
                 /\ pc' = [pc EXCEPT ![t] = "done"]
                 /\ UNCHANGED pos
            ELSE /\ pos' = [pos EXCEPT ![t] = pos[t] + 1]
                 /\ UNCHANGED <<result, pc>>
    /\ UNCHANGED <<statics, gil, fn, word, case, version, call>>

\* the iterator position kept in one place for all threads
for_version_shared(t) ==
    /\ pc[t] = "for"
    /\ gil = t
    /\ IF pos[t] >= Len(version[t].vec)
       THEN /\ result' = [result EXCEPT ![t] = Err("Unable to find correct case")]
            /\ pc' = [pc EXCEPT ![t] = "done"]
            /\ UNCHANGED pos
       ELSE LET i == version[t].vec[pos[t] + 1] IN
            IF i.grammatical_case = case[t]
            THEN /\ result' = [result EXCEPT ![t] = matched(word[t], i)]
                 /\ pc' = [pc EXCEPT ![t] = "done"]
                 /\ UNCHANGED pos
            ELSE /\ pos' = [u \in Threads |-> pos[t] + 1]
                 /\ UNCHANGED <<result, pc>>
    /\ UNCHANGED <<statics, gil, fn, word, case, version, call>>

\* lines 33-47: one iteration of `for i in version`, or the end of the loop
for_version(t) ==
    /\ pc[t] = "for"
    /\ gil = t
    /\ IF pos[t] >= Len(version[t].vec)
       THEN /\ result' = [result EXCEPT ![t] = Err("Unable to find correct case")]
            /\ pc' = [pc EXCEPT ![t] = "done"]
            /\ UNCHANGED pos
       ELSE LET i == version[t].vec[pos[t] + 1] IN
            IF i.grammatical_case = case[t]
            THEN /\ result' = [result EXCEPT ![t] = matched(word[t], i)]
                 /\ pc' = [pc EXCEPT ![t] = "done"]
                 /\ UNCHANGED pos
            ELSE /\ pos' = [pos EXCEPT ![t] = pos[t] + 1]
                 /\ UNCHANGED <<result, pc>>
    /\ UNCHANGED <<statics, gil, fn, word, case, version, call>>

\* get_case_name touches no lock and no Python: one step
call_get_case_name(t, ns) ==
    /\ pc[t] = "idle"
    /\ \E n \in ns :
          /\ case' = [case EXCEPT ![t] = n]
          /\ result' = [result EXCEPT ![t] = Returned(get_case_name(n))]
    /\ fn' = [fn EXCEPT ![t] = "get_case_name"]
    /\ pc' = [pc EXCEPT ![t] = "done"]
    /\ UNCHANGED <<statics, gil, word, version, pos, call>>

NoVersion == [is_some |-> FALSE, vec |-> <<>>]

\* the call is over: the guard of with_gil is dropped (also when unwinding),
\* the locals die; a panic ends the thread, anything else goes to the caller
return(t) ==
    /\ pc[t] = "done"
    /\ gil' = IF gil = t THEN 0 ELSE gil
    /\ pc' = [pc EXCEPT ![t] = IF result[t].kind = "panic" THEN "panicked" ELSE "idle"]
    /\ fn' = [fn EXCEPT ![t] = "none"]
    /\ word' = [word EXCEPT ![t] = <<>>]
    /\ case' = [case EXCEPT ![t] = <<>>]
    /\ version' = [version EXCEPT ![t] = NoVersion]
    /\ pos' = [pos EXCEPT ![t] = 0]
    /\ result' = [result EXCEPT ![t] = NoResult]
    /\ UNCHANGED <<statics, call>>

NoCall == [op |-> "none", s |-> <<>>, t |-> 0, n |-> 0, out |-> NoResult]

Init ==
    /\ statics = Statics
    /\ gil = 0
    /\ pc = [t \in Threads |-> "idle"]
    /\ fn = [t \in Threads |-> "none"]
    /\ word = [t \in Threads |-> <<>>]
    /\ case = [t \in Threads |-> <<>>]
    /\ version = [t \in Threads |-> NoVersion]
    /\ pos = [t \in Threads |-> 0]
    /\ result = [t \in Threads |-> NoResult]
    /\ call = NoCall

Next ==
    \E t \in MainThread :
        \/ call_get_accentuation(t, Words, Cases)
        \/ with_gil(t)
        \/ py_yield(t)
        \/ py_resume(t)
        \/ process(t, Versions)
        \/ for_version(t)
        \/ call_get_case_name(t, EnglishNames)
        \/ return(t)

Spec == Init /\ [][Next]_vars

NextConc ==
    \E t \in Threads :
        \/ call_get_accentuation(t, ConcWords, ConcCases)
        \/ with_gil(t)
        \/ py_yield(t)
        \/ py_resume(t)
        \/ process(t, ConcVersions)
        \/ for_version(t)
        \/ call_get_case_name(t, EnglishNames)
        \/ return(t)

SpecConc == Init /\ [][NextConc]_vars

-----------------------------------------------------------------------------
(* The pure functions on their own *)

\* a, e, l, u-macron, z-caron: keys of each table, a key of none, one- and
\* two-byte characters
WordChars == {97, 101, 108, 363, 382}
PureWords == {Str(cps) : cps \in BoundedSeq(WordChars, MaxLen)}
PureStressTypes == {0, 1, 2, 3, 255}

\* every key of the three tables, and g, d, z-caron
Chars ==
    {97, 105, 117, 363, 101, 279, 303, 261, 371, 281, 108, 109, 111, 114,
     121, 103, 100, 382}

EnglishCaseNames ==
    {nominative, genitive, dative, accusative, instrumental, locative, vocative}

\* an all-ASCII lower-case string with the positions in S written in capitals
Capitalised(s, S) == [k \in 1 .. Len(s) |-> IF k \in S THEN s[k] - 32 ELSE s[k]]
CasingVariants(s) == {Capitalised(s, S) : S \in SUBSET (1 .. Len(s))}

\* x, I-with-dot, dotless i, Kelvin sign, space
EditChars == {120, 304, 305, 8490, 32}
Edits(s) ==
    LET cs == chars(s) IN
    {Str([cs EXCEPT ![k] = c]) : k \in 1 .. Len(cs), c \in EditChars}
        \cup {Str(SubSeq(cs, 1, k - 1) \o SubSeq(cs, k + 1, Len(cs))) : k \in 1 .. Len(cs)}
        \cup {Str(cs \o <<c>>) : c \in EditChars}
        \cup {Str(<<c>> \o cs) : c \in EditChars}

NameInputs ==
    UNION {CasingVariants(n) : n \in EnglishCaseNames}
        \cup UNION {Edits(n) \cup Edits(Capitalised(n, 1 .. Len(n))) : n \in EnglishCaseNames}
        \cup {CASE_NAMES[n] : n \in EnglishCaseNames}
        \cup {<<>>, UNKNOWN, ablative, vardininkas}

PureCalls ==
    {[op |-> "create_stresed_word", s |-> w, t |-> st, n |-> k, out |-> NoResult] :
        w \in PureWords, st \in PureStressTypes, k \in 0 .. MaxLen}
    \cup
    {[op |-> "make_stressed", s |-> encode_utf8(c), t |-> st, n |-> 0, out |-> NoResult] :
        c \in Chars, st \in PureStressTypes}
    \cup
    {[op |-> "get_case_name", s |-> nm, t |-> 0, n |-> 0, out |-> NoResult] :
        nm \in NameInputs}

apply_create_stresed_word ==
    /\ call.op = "create_stresed_word"
    /\ call.out = NoResult
    /\ call' = [call EXCEPT !.out = create_stresed_word(call.s, call.t, call.n)]
    /\ UNCHANGED <<statics, gil, pc, locals>>

apply_make_stressed ==
    /\ call.op = "make_stressed"
    /\ call.out = NoResult
    /\ call' = [call EXCEPT !.out = make_stressed(chars(call.s)[1], call.t)]
    /\ UNCHANGED <<statics, gil, pc, locals>>

apply_get_case_name ==
    /\ call.op = "get_case_name"
    /\ call.out = NoResult
    /\ call' = [call EXCEPT !.out = Returned(get_case_name(call.s))]
    /\ UNCHANGED <<statics, gil, pc, locals>>

InitPure ==
    /\ statics = Statics
    /\ gil = 0
    /\ pc = [t \in Threads |-> "idle"]
    /\ fn = [t \in Threads |-> "none"]
    /\ word = [t \in Threads |-> <<>>]
    /\ case = [t \in Threads |-> <<>>]
    /\ version = [t \in Threads |-> NoVersion]
    /\ pos = [t \in Threads |-> 0]
    /\ result = [t \in Threads |-> NoResult]
    /\ call \in PureCalls

NextPure ==
    \/ apply_create_stresed_word
    \/ apply_make_stressed
    \/ apply_get_case_name

SpecPure == InitPure /\ [][NextPure]_vars

-----------------------------------------------------------------------------
(* Vocabulary of the properties *)

\* the diacritic classes as the specification lists them
ClassKeys(st) ==
    IF st = 0 THEN {97, 105, 117}
    ELSE IF st = 1 THEN {363, 101, 279, 303, 261, 371}
    ELSE {261, 101, 279, 281, 303, 108, 109, 111, 114, 371, 363, 121}

ClassTable(st) ==
    IF st = 0 THEN STRESS_TYPE_0 ELSE IF st = 1 THEN STRESS_TYPE_1 ELSE STRESS_TYPE_2

\* the code points that carry the mark of a class: grave, acute, tilde
ClassMarks(st) ==
    IF st = 0 THEN {224, 236, 768}
    ELSE IF st = 1 THEN {769}
    ELSE {771, 7869, 245, 7929}

\* the seven cases as the specification pairs them
CanonicalLabel ==
    <<<<nominative, Vardininkas>>, <<genitive, Kilmininkas>>,
      <<dative, Naudininkas>>, <<accusative, Galininkas>>,
      <<instrumental, Inagininkas>>, <<locative, Vietininkas>>,
      <<vocative, Sauksmininkas>>>>

\* s is n (ASCII, lower case) with any of its letters in capitals
IsCasingVariant(s, n) ==
    /\ Len(s) = Len(n)
    /\ \A k \in 1 .. Len(n) : s[k] = n[k] \/ s[k] = n[k] - 32

ExpectedCaseName(s) ==
    IF \E k \in 1 .. Len(CanonicalLabel) : IsCasingVariant(s, CanonicalLabel[k][1])
    THEN CanonicalLabel[CHOOSE k \in 1 .. Len(CanonicalLabel) :
                            IsCasingVariant(s, CanonicalLabel[k][1])][2]
    ELSE UNKNOWN

HasMatch(v, c) == \E k \in 1 .. Len(v) : v[k].grammatical_case = c

FirstMatch(v, c) ==
    v[CHOOSE k \in 1 .. Len(v) :
          /\ v[k].grammatical_case = c
          /\ \A j \in 1 .. k - 1 : v[j].grammatical_case # c]

\* thread t has finished a get_accentuation call for which the analyzer
\* delivered a candidate list
Finished(t) ==
    /\ pc[t] = "done"
    /\ fn[t] = "get_accentuation"
    /\ version[t].is_some

Selected(t) == FirstMatch(version[t].vec, case[t])

CaseNotFound == Err("Unable to find correct case")

-----------------------------------------------------------------------------
(* Properties *)

\* C1: when the index is inside the word and its code point is a key of the
\* table of the stress type, create_stresed_word returns the word's code
\* points in order, the one at the index (counted in code points) replaced
\* by the table's accented form, all others unchanged.
C1_RenderSubstitutesOnlyIndex ==
    LET cs == chars(call.s) IN
    (/\ call.op = "create_stresed_word"
     /\ call.out # NoResult
     /\ call.t \in {0, 1, 2}
     /\ call.n < Len(cs)
     /\ cs[call.n + 1] \in ClassKeys(call.t))
    => /\ call.out.kind = "returned"
       /\ chars(call.out.val) =
              SubSeq(cs, 1, call.n)
                  \o chars(ClassTable(call.t)[cs[call.n + 1]])
                  \o SubSeq(cs, call.n + 2, Len(cs))

\* z-caron u-macron a, tilde on the u-macron at code point 1 (byte 2)
C1_Witness ==
    /\ call.op = "create_stresed_word"
    /\ call.s = Str(<<382, 363, 97>>)
    /\ call.t = 2
    /\ call.n = 1
    /\ call.out = Returned(Str(<<382, 363, 771, 97>>))

\* C2: the record rendered is the first one, in list order, whose
\* grammatical_case equals the requested case exactly; later records with
\* the same case have no influence on the result.
C2_FirstMatchDecides ==
    \A t \in Threads :
        (Finished(t) /\ HasMatch(version[t].vec, case[t]))
        => result[t] = matched(word[t], Selected(t))

\* "gera", two Vardininkas records: grave on the a (first) wins over tilde
\* on the e (second)
C2_Witness ==
    \E t \in Threads :
        /\ Finished(t)
        /\ word[t] = gera
        /\ case[t] = Vardininkas
        /\ version[t].vec =
               <<[grammatical_case |-> Vardininkas, stress_type |-> 0,
                  stressed_letter_index |-> 3],
                 [grammatical_case |-> Vardininkas, stress_type |-> 2,
                  stressed_letter_index |-> 1]>>
        /\ result[t] = Ok(Str(<<103, 101, 114, 224>>))

\* C3: get_case_name maps every casing variant of the seven English case
\* names to that case's Lithuanian label and every other input to
\* "UNKNOWN"; it always returns.
C3_CaseNameTranslation ==
    (call.op = "get_case_name" /\ call.out # NoResult)
    => call.out = Returned(ExpectedCaseName(call.s))

\* "INSTRUMENTAL"
C3_Witness ==
    /\ call.op = "get_case_name"
    /\ call.s = Str(<<73, 78, 83, 84, 82, 85, 77, 69, 78, 84, 65, 76>>)
    /\ call.out = Returned(Inagininkas)

\* C4: when no record of the candidate list carries exactly the requested
\* case (the empty list included), get_accentuation returns the
\* "Unable to find correct case" error and no word.
C4_NoMatchIsCaseNotFound ==
    \A t \in Threads :
        (Finished(t) /\ ~HasMatch(version[t].vec, case[t]))
        => result[t] = CaseNotFound

\* asked for "vardininkas", the list holds "Vardininkas"
C4_Witness ==
    \E t \in Threads :
        /\ Finished(t)
        /\ case[t] = vardininkas
        /\ Len(version[t].vec) = MaxOptions
        /\ \A k \in 1 .. Len(version[t].vec) :
               version[t].vec[k].grammatical_case = Vardininkas
        /\ result[t] = CaseNotFound

\* C5: a selected record whose index is at or beyond the word's code-point
\* length makes get_accentuation return an error, never a word.
C5_IndexOutOfRangeIsError ==
    \A t \in Threads :
        (/\ Finished(t)
         /\ HasMatch(version[t].vec, case[t])
         /\ Selected(t).stress_type <= 255
         /\ Selected(t).stressed_letter_index >= Len(chars(word[t])))
        => result[t].kind = "Err"

\* C6: a selected record whose code point is no key of the table of its
\* stress type makes get_accentuation return an error result.
C6_MissingMappingIsError ==
    \A t \in Threads :
        (/\ Finished(t)
         /\ HasMatch(version[t].vec, case[t])
         /\ Selected(t).stress_type \in {0, 1, 2}
         /\ Selected(t).stressed_letter_index < Len(chars(word[t]))
         /\ chars(word[t])[Selected(t).stressed_letter_index + 1]
                \notin ClassKeys(Selected(t).stress_type))
        => result[t].kind = "Err"

\* C7: for a stress type in {0,1,2} and a key of that class, make_stressed
\* returns that class's entry, carrying that class's mark; the class is
\* chosen by the stress type alone.
C7_LookupByStressType ==
    LET c == chars(call.s)[1] IN
    (/\ call.op = "make_stressed"
     /\ call.out # NoResult
     /\ call.t \in {0, 1, 2}
     /\ c \in ClassKeys(call.t))
    => /\ call.out = Returned(ClassTable(call.t)[c])
       /\ chars(call.out.val)[Len(chars(call.out.val))] \in ClassMarks(call.t)

\* e under stress type 1: e-ogonek + acute, not the tilde form of class 2
C7_Witness ==
    /\ call.op = "make_stressed"
    /\ call.s = <<101>>
    /\ call.t = 1
    /\ call.out = Returned(Str(<<281, 769>>))

\* what a call returns when nothing else runs: decided by its own word,
\* case and candidate list alone
Alone(t) ==
    IF fn[t] = "get_case_name" THEN Returned(ExpectedCaseName(case[t]))
    ELSE IF ~version[t].is_some THEN Err("PyErr")
    ELSE IF HasMatch(version[t].vec, case[t]) THEN matched(word[t], Selected(t))
    ELSE CaseNotFound

\* C8: under any interleaving of callers the static tables keep their
\* contents and every finished call holds the result it has when run alone.
C8_CallsAreIndependent ==
    /\ statics = Statics
    /\ \A t \in Threads : pc[t] = "done" => result[t] = Alone(t)

\* two calls finished side by side: one skipped a record before matching,
\* the other translated a name meanwhile
C8_Witness ==
    \E t, u \in Threads :
        /\ t # u
        /\ Finished(t)
        /\ pos[t] > 0
        /\ result[t].kind = "Ok"
        /\ pc[u] = "done"
        /\ fn[u] = "get_case_name"
        /\ result[u] = Returned(Vardininkas)

\* C9: "UNKNOWN" is an ordinary case to look for: the first record labelled
\* "UNKNOWN" is rendered if there is one, and only without one does the
\* call end in "Unable to find correct case".
C9_UnknownIsOrdinary ==
    \A t \in Threads :
        (Finished(t) /\ case[t] = UNKNOWN)
        => IF HasMatch(version[t].vec, UNKNOWN)
           THEN /\ result[t] = matched(word[t], FirstMatch(version[t].vec, UNKNOWN))
                /\ result[t] # CaseNotFound
           ELSE result[t] = CaseNotFound

\* get_accentuation("gera", get_case_name("ablative")) with an "UNKNOWN"
\* record behind a "Vardininkas" one
C9_Witness ==
    \E t \in Threads :
        /\ Finished(t)
        /\ word[t] = gera
        /\ case[t] = get_case_name(ablative)
        /\ version[t].vec =
               <<[grammatical_case |-> Vardininkas, stress_type |-> 0,
                  stressed_letter_index |-> 3],
                 [grammatical_case |-> UNKNOWN, stress_type |-> 2,
                  stressed_letter_index |-> 1]>>
        /\ result[t] = Ok(Str(<<103, 7869, 114, 97>>))

\* C10: a selected record whose stress type is a u8 outside {0,1,2}, with
\* the index inside the word, makes get_accentuation return an error result.
C10_InvalidStressTypeIsError ==
    \A t \in Threads :
        (/\ Finished(t)
         /\ HasMatch(version[t].vec, case[t])
         /\ Selected(t).stress_type \in 3 .. 255
         /\ Selected(t).stressed_letter_index < Len(chars(word[t])))
        => result[t].kind = "Err"

====
